---- MODULE Spec2Model ----
(***************************************************************************)
(* CustomBench (package benches): Init, Validate, Run, runThread and the   *)
(* accessors Stats and State.  Run is the coordinator; every runThread is  *)
(* a goroutine with its own driver and its own buffered channel.           *)
(*                                                                         *)
(* A Go string is a sequence of one-character strings, so that             *)
(* strings.ToLower, strings.SplitN and strings.Split are computed and not  *)
(* assumed.  A Go map is a function whose domain is the set of its keys.   *)
(*                                                                         *)
(* Spec is the benchmark with its caller, SpecLive the same under a fair   *)
(* scheduler.  SpecIter is one iteration of runThread taken one command at *)
(* a time, with the goroutines that consume the Stats readers it opens;    *)
(* SpecIterLive is SpecIter with those goroutines scheduled fairly.        *)
(***************************************************************************)
EXTENDS Integers, Sequences, FiniteSets, TLC

VARIABLES
    state,       \* cb.state
    stats,       \* cb.stats
    driver,      \* cb.driver: "nil" or "set"
    cpc,         \* where the caller of Init/Validate/Run stands
    run,         \* number of Run calls started so far
    threads,     \* Run's argument threads (of the latest Run)
    iterations,  \* Run's argument iterations (of the latest Run)
    commands,    \* Run's argument commands (while Run executes)
    idx,         \* Run's loop index (spawn loop, then drain loop)
    wg,          \* run -> counter of that Run's sync.WaitGroup
    workers,     \* <<run, thread>> -> the live runThread goroutine
    statChan,    \* <<run, thread>> -> that thread's channel
    nfail,       \* number of driver failures injected so far
    lastCall,    \* the latest call of the caller
    lastErr,     \* what the latest call returned ("pending" while it runs)
    aborted,     \* <<run, thread>> -> the iteration whose Create failed
    iter,        \* one iteration of the command loop, stepped alone
    users,       \* driver instance -> the goroutines that invoked it
    newFailed,   \* the Runs that returned because driver.New failed
    cb_elapsed   \* cb.elapsed: the Run whose duration it holds, 0 at first

vars == <<state, stats, driver, cpc, run, threads, iterations, commands, idx,
          wg, workers, statChan, nfail, lastCall, lastErr, aborted, iter,
          users, newFailed, cb_elapsed>>

-----------------------------------------------------------------------------
(* Bounds of the model *)

MaxThreads == 2
MaxIters == 2
MaxRuns == 2
MaxFail == 1
MaxCmds == 2

-----------------------------------------------------------------------------
(* Strings *)

UpperChars == <<"A","B","C","D","E","F","G","H","I","J","K","L","M",
                "N","O","P","Q","R","S","T","U","V","W","X","Y","Z">>
LowerChars == <<"a","b","c","d","e","f","g","h","i","j","k","l","m",
                "n","o","p","q","r","s","t","u","v","w","x","y","z">>

LowerChar(c) ==
    IF \E k \in 1..Len(UpperChars) : UpperChars[k] = c
    THEN LowerChars[CHOOSE k \in 1..Len(UpperChars) : UpperChars[k] = c]
    ELSE c

\* strings.ToLower
ToLower(s) == [k \in 1..Len(s) |-> LowerChar(s[k])]

\* index of the first sep in s, 0 when there is none
IndexOf(s, sep) ==
    IF \E k \in 1..Len(s) : s[k] = sep
    THEN CHOOSE k \in 1..Len(s) : s[k] = sep /\ \A j \in 1..(k-1) : s[j] # sep
    ELSE 0

\* strings.SplitN(s, " ", 2)
SplitN2(s) ==
    LET k == IndexOf(s, " ")
    IN IF k = 0 THEN <<s>>
       ELSE <<SubSeq(s, 1, k-1), SubSeq(s, k+1, Len(s))>>

\* strings.Split(s, " ")
RECURSIVE Split(_)
Split(s) ==
    LET k == IndexOf(s, " ")
    IN IF k = 0 THEN <<s>>
       ELSE <<SubSeq(s, 1, k-1)>> \o Split(SubSeq(s, k+1, Len(s)))

\* the string literals of the switch in runThread, and the keys it writes
s_run == <<"r","u","n">>
s_start == <<"s","t","a","r","t">>
s_stop == <<"s","t","o","p">>
s_kill == <<"k","i","l","l">>
s_remove == <<"r","e","m","o","v","e">>
s_erase == <<"e","r","a","s","e">>
s_delete == <<"d","e","l","e","t","e">>
s_pause == <<"p","a","u","s","e">>
s_unpause == <<"u","n","p","a","u","s","e">>
s_resume == <<"r","e","s","u","m","e">>
s_wait == <<"w","a","i","t">>
s_metrics == <<"m","e","t","r","i","c","s">>
s_stats == <<"s","t","a","t","s">>
s_execsync == <<"e","x","e","c","s","y","n","c">>

-----------------------------------------------------------------------------
(* Maps *)

EmptyMap == [k \in {} |-> 0]

Put(m, k, v) == [x \in (DOMAIN m) \cup {k} |-> IF x = k THEN v ELSE m[x]]

\* m[k]++ on a map[string]int
Inc(m, k) == Put(m, k, IF k \in DOMAIN m THEN m[k] + 1 ELSE 1)

-----------------------------------------------------------------------------
(* The driver as the benchmark sees it: each timed operation returns an     *)
(* elapsed value and may fail.  The elapsed value the driver returns for    *)
(* the command at position pos of the sequence is pos, so that two          *)
(* attempts of one iteration never return the same value.                   *)

Elapsed(pos) == pos

-----------------------------------------------------------------------------
(* runThread: one command of the loop over commands (lines 168-215) *)

\* the verb the switch looks at: cmd is replaced by parts[0] only when the
\* command holds a space
CmdVerb(raw) ==
    LET parts == SplitN2(raw)
    IN IF Len(parts) = 2 THEN parts[1] ELSE raw

\* var args []string, set only when the command holds a space
CmdArgs(raw) ==
    LET parts == SplitN2(raw)
    IN IF Len(parts) = 2 THEN Split(parts[2]) ELSE <<>>

\* the switch on strings.ToLower(cmd): the driver operation of the case and
\* the key the case passes to log_error ("none": the default case)
Dispatch(raw) ==
    LET cmd == CmdVerb(raw)
        low == ToLower(cmd)
    IN CASE low \in {s_run, s_start} -> [op |-> "Run", key |-> s_run]
         [] low \in {s_stop, s_kill} -> [op |-> "Stop", key |-> s_stop]
         [] low \in {s_remove, s_erase, s_delete} -> [op |-> "Remove", key |-> s_remove]
         [] low = s_pause -> [op |-> "Pause", key |-> cmd]
         [] low \in {s_unpause, s_resume} -> [op |-> "Unpause", key |-> s_resume]
         [] low = s_wait -> [op |-> "Wait", key |-> cmd]
         [] low \in {s_metrics, s_stats} -> [op |-> "Stats", key |-> s_metrics]
         [] low = s_execsync -> [op |-> "Execsync", key |-> cmd]
         [] OTHER -> [op |-> "none", key |-> cmd]

\* the maps and counters of one iteration: durations, errors (lines 146-147),
\* the driver calls made so far and the Stats readers opened so far
NewIteration == [durations |-> EmptyMap, errors |-> EmptyMap,
                 calls |-> <<>>, readers |-> 0]

\* the closure log_error (lines 157-164)
log_error(it, key, failed, elapsed) ==
    [it EXCEPT !.errors = IF failed THEN Inc(@, key) ELSE @,
               !.durations = Put(@, key, elapsed)]

\* the case "metrics", "stats" (lines 197-208): no call of log_error
StatsCase(it, failed) ==
    IF failed THEN [it EXCEPT !.errors = Inc(@, s_metrics)]
    ELSE [it EXCEPT !.readers = @ + 1]

\* ExecCmd with a default case that times the verb like the other cases
ExecCmdRecordUnknown(it, raw, failed, elapsed) ==
    LET d == Dispatch(raw)
        called == [it EXCEPT !.calls = Append(@,
                      [op |-> d.op,
                       args |-> IF d.op = "Execsync" THEN CmdArgs(raw) ELSE <<>>])]
    IN IF d.op = "none" THEN log_error(it, d.key, FALSE, elapsed)
       ELSE IF d.op = "Stats" THEN StatsCase(called, failed)
       ELSE log_error(called, d.key, failed, elapsed)

\* one pass of the loop body: the driver call of the case, then its record
ExecCmd(it, raw, failed, elapsed) ==
    LET d == Dispatch(raw)
        called == [it EXCEPT !.calls = Append(@,
                      [op |-> d.op,
                       args |-> IF d.op = "Execsync" THEN CmdArgs(raw) ELSE <<>>])]
    IN IF d.op = "none" THEN it
       ELSE IF d.op = "Stats" THEN StatsCase(called, failed)
       ELSE log_error(called, d.key, failed, elapsed)

\* the positions of cmds at which a driver operation is invoked
DriverPositions(cmds) == {p \in 1..Len(cmds) : Dispatch(cmds[p]).op # "none"}

\* the whole loop over commands, the driver failing at the positions in fails
RECURSIVE RunFrom(_, _, _, _)
RunFrom(it, cmds, k, fails) ==
    IF k > Len(cmds) THEN it
    ELSE RunFrom(ExecCmd(it, cmds[k], k \in fails, Elapsed(k)), cmds, k + 1, fails)

RunCommands(cmds, fails) == RunFrom(NewIteration, cmds, 1, fails)

\* the RunStatistics sent at lines 219-223.  Timestamp is not modelled; run,
\* thread and iter say which iteration the record is of (the container name
\* of line 150 holds thread and iter)
RunStatistics(it, r, t, i) ==
    [Durations |-> it.durations, Errors |-> it.errors,
     run |-> r, thread |-> t, iter |-> i]

-----------------------------------------------------------------------------
(* CustomBench: state and accessors *)

Created == "Created"
Running == "Running"
Completed == "Completed"

\* Stats without the test of cb.state
StatsUnguarded == stats

\* func (cb *CustomBench) Stats() []RunStatistics (lines 228-233)
Stats == IF state = Completed THEN stats ELSE <<>>

\* func (cb *CustomBench) State() State (lines 236-238)
State == state

\* make(chan RunStatistics): a channel without a buffer
MakeChanUnbuffered(n) == [buf |-> <<>>, cap |-> 0, closed |-> FALSE]

\* make(chan RunStatistics, iterations) (line 99)
MakeChan(n) == [buf |-> <<>>, cap |-> n, closed |-> FALSE]

\* cb.driver, and the goroutine that calls Init, Validate and Run
CoordDriver == <<0, 0>>
Caller == <<0, 0>>

\* one driver made for all the workers of a Run
NewDriverShared(r, k) == <<r, 0>>

\* drv, err := driver.New(ctx, &cb.Config) in pass k of the spawn loop of
\* Run number r (line 108): an instance no other call returns
NewDriver(r, k) == <<r, k>>

\* a driver operation invoked on instance d by goroutine g
Use(u, d, g) == Put(u, d, (IF d \in DOMAIN u THEN u[d] ELSE {}) \cup {g})

\* what the loop over commands (lines 168-215) does with cmds, for each set
\* of positions at which the driver fails
LoopOutcomes(cmds) ==
    [f \in SUBSET DriverPositions(cmds) |-> RunCommands(cmds, f)]

\* the goroutine started at lines 114-117, about to enter runThread's loop
\* with runner = drv; loop is what its loop over commands will do, which
\* its argument commands decides
NewWorker(n, cmds, drv) ==
    [pc |-> IF n > 0 THEN "create" ELSE "close",
     i |-> 0, n |-> n, cmds |-> cmds, loop |-> LoopOutcomes(cmds),
     it |-> NewIteration,
     token |-> "none", cancels |-> 0,
     runner |-> drv, closes |-> 0, chanCloses |-> 0, closeErr |-> FALSE]

\* the channels still referenced: by a live goroutine, or by a Run that has
\* not returned
Collect(chans, ws, r, pc) ==
    LET keep == {k \in DOMAIN chans : k \in DOMAIN ws \/ (k[1] = r /\ pc # "idle")}
    IN [k \in keep |-> chans[k]]

Without(f, k) == [x \in (DOMAIN f) \ {k} |-> f[x]]

\* the workers of Run number r that have not returned
Alive(r) == {w \in DOMAIN workers : w[1] = r}

-----------------------------------------------------------------------------
(* The inputs *)

\* the command sequences Run is called with
RunCommandSeqs ==
    { <<s_run, s_stop>>,
      <<s_run, s_stats, s_remove>> }

\* the calls of one caller follow each other; a call made before a
\* successful Init ends in a nil dereference of cb.driver and is left out
CallerIdle == cpc = "idle"

-----------------------------------------------------------------------------
(* Init (lines 30-64) *)

\* e names the first step of Init that fails: driver.New, driver.Info or
\* driver.Clean, "nil" when none does.  cb.state is not assigned.
CbInit ==
    /\ CallerIdle
    /\ \E e \in {"nil", "new", "info", "clean"} :
          /\ e # "nil" => nfail < MaxFail
          /\ nfail' = IF e = "nil" THEN nfail ELSE nfail + 1
          /\ driver' = IF e = "nil" THEN "set" ELSE driver
          /\ lastErr' = e
          /\ users' = IF e = "new" THEN users ELSE Use(users, CoordDriver, Caller)
    /\ lastCall' = "Init"
    /\ UNCHANGED <<state, stats, cpc, run, threads, iterations, commands, idx,
                   wg, workers, statChan, aborted, iter, newFailed, cb_elapsed>>

(* Validate (lines 68-91): Create, Run, Stop, Remove on cb.driver, returning *)
(* at the first error; no field of cb is assigned.                           *)
Validate ==
    /\ CallerIdle
    /\ driver = "set"
    /\ \E e \in {"nil", "create", "run", "stop", "remove"} :
          /\ e # "nil" => nfail < MaxFail
          /\ nfail' = IF e = "nil" THEN nfail ELSE nfail + 1
          /\ lastErr' = e
    /\ lastCall' = "Validate"
    /\ users' = Use(users, CoordDriver, Caller)
    /\ UNCHANGED <<state, stats, driver, cpc, run, threads, iterations,
                   commands, idx, wg, workers, statChan, aborted, iter,
                   newFailed, cb_elapsed>>

-----------------------------------------------------------------------------
(* Run (lines 95-135), the coordinator *)

\* lines 96-102: the channels, cb.state = Running, the start time
RunStart ==
    /\ CallerIdle
    /\ driver = "set"
    /\ run < MaxRuns
    /\ \E t \in 0..MaxThreads, n \in 0..MaxIters, cmds \in RunCommandSeqs :
          /\ threads' = t
          /\ iterations' = n
          /\ commands' = cmds
          /\ statChan' = [k \in (DOMAIN statChan) \cup {<<run + 1, j>> : j \in 0..(t-1)} |->
                             IF k \in DOMAIN statChan THEN statChan[k] ELSE MakeChan(n)]
          /\ cpc' = IF t = 0 THEN "wait" ELSE "spawn"
    /\ run' = run + 1
    /\ state' = Running
    /\ wg' = Put(wg, run + 1, 0)
    /\ idx' = 0
    /\ lastCall' = "Run"
    /\ lastErr' = "pending"
    /\ UNCHANGED <<stats, driver, workers, nfail, aborted, iter,
                   users, newFailed, cb_elapsed>>

\* lines 105-118, driver.New succeeds: wg.Add(1) and the goroutine
Spawn ==
    /\ cpc = "spawn"
    /\ wg' = [wg EXCEPT ![run] = @ + 1]
    /\ workers' = Put(workers, <<run, idx>>, NewWorker(iterations, commands, NewDriver(run, idx)))
    /\ idx' = idx + 1
    /\ cpc' = IF idx + 1 = threads THEN "wait" ELSE "spawn"
    /\ UNCHANGED <<state, stats, driver, run, threads, iterations, commands,
                   statChan, nfail, lastCall, lastErr, aborted, iter,
                   users, newFailed, cb_elapsed>>

\* a failed driver.New ending the spawn loop, Run then joining and draining
\* the workers it has started
SpawnFailThenJoin ==
    /\ cpc = "spawn"
    /\ nfail < MaxFail
    /\ nfail' = nfail + 1
    /\ cpc' = "wait"
    /\ threads' = idx
    /\ newFailed' = newFailed \cup {run}
    /\ UNCHANGED <<state, stats, driver, run, iterations, commands, idx, wg,
                   workers, statChan, lastCall, lastErr, aborted, iter, users,
                   cb_elapsed>>

\* lines 108-111, driver.New fails: Run returns the error at once
SpawnFail ==
    /\ cpc = "spawn"
    /\ nfail < MaxFail
    /\ nfail' = nfail + 1
    /\ cpc' = "idle"
    /\ lastErr' = "new"
    /\ commands' = <<>>
    /\ idx' = 0
    /\ statChan' = Collect(statChan, workers, run, "idle")
    /\ newFailed' = newFailed \cup {run}
    /\ UNCHANGED <<state, stats, driver, run, threads, iterations, wg, workers,
                   lastCall, aborted, iter, users, cb_elapsed>>

\* lines 119-120: wg.Wait() returns once the counter is 0
Wait ==
    /\ cpc = "wait"
    /\ wg[run] = 0
    /\ cpc' = "drain"
    /\ idx' = 0
    /\ cb_elapsed' = run
    /\ UNCHANGED <<state, stats, driver, run, threads, iterations, commands,
                   wg, workers, statChan, nfail, lastCall, lastErr, aborted, iter,
                   users, newFailed>>

\* the channels drained from the last thread to the first
DrainChanReversed(k) == <<run, threads - 1 - k>>

\* the channel the drain loop reads in its pass number k: range statChan
DrainChan(k) == <<run, k>>

\* lines 124-128: one receive of "for statEntry := range ch", or the end of
\* the range over a closed and empty channel
Recv ==
    /\ cpc = "drain"
    /\ idx < threads
    /\ LET c == DrainChan(idx)
           ch == statChan[c]
       IN IF ch.buf # <<>>
          THEN /\ stats' = Append(stats, Head(ch.buf))
               /\ statChan' = [statChan EXCEPT ![c].buf = Tail(@)]
               /\ idx' = idx
          ELSE /\ ch.closed
               /\ idx' = idx + 1
               /\ UNCHANGED <<stats, statChan>>
    /\ UNCHANGED <<state, driver, cpc, run, threads, iterations, commands,
                   wg, workers, nfail, lastCall, lastErr, aborted, iter,
                   users, newFailed, cb_elapsed>>

\* line 129
Complete ==
    /\ cpc = "drain"
    /\ idx = threads
    /\ state' = Completed
    /\ cpc' = "clean"
    /\ UNCHANGED <<stats, driver, run, threads, iterations, commands, idx, wg,
                   workers, statChan, nfail, lastCall, lastErr, aborted, iter,
                   users, newFailed, cb_elapsed>>

\* Run marking the benchmark Completed only when cb.driver.Clean succeeded
CleanErrorInvalidates ==
    /\ cpc = "clean"
    /\ \E failed \in BOOLEAN :
          /\ failed => nfail < MaxFail
          /\ nfail' = IF failed THEN nfail + 1 ELSE nfail
          /\ lastErr' = IF failed THEN "clean" ELSE "nil"
          /\ state' = IF failed THEN Running ELSE Completed
    /\ cpc' = "idle"
    /\ commands' = <<>>
    /\ idx' = 0
    /\ statChan' = Collect(statChan, workers, run, "idle")
    /\ users' = Use(users, CoordDriver, Caller)
    /\ UNCHANGED <<stats, driver, run, threads, iterations, wg, workers,
                   lastCall, aborted, iter, newFailed, cb_elapsed>>

\* lines 131-134: cb.driver.Clean, and Run returns
Clean ==
    /\ cpc = "clean"
    /\ \E failed \in BOOLEAN :
          /\ failed => nfail < MaxFail
          /\ nfail' = IF failed THEN nfail + 1 ELSE nfail
          /\ lastErr' = IF failed THEN "clean" ELSE "nil"
    /\ cpc' = "idle"
    /\ commands' = <<>>
    /\ idx' = 0
    /\ statChan' = Collect(statChan, workers, run, "idle")
    /\ users' = Use(users, CoordDriver, Caller)
    /\ UNCHANGED <<state, stats, driver, run, threads, iterations, wg, workers,
                   lastCall, aborted, iter, newFailed, cb_elapsed>>

-----------------------------------------------------------------------------
(* runThread (lines 137-225), one goroutine w = <<run, thread>> *)

\* the failed iteration skipped, the worker going on with the next one
OnCreateErrorContinue(wk) ==
    [wk EXCEPT !.i = @ + 1,
               !.pc = IF wk.i + 1 < wk.n THEN "create" ELSE "close"]

\* line 154: return
OnCreateError(wk) == [wk EXCEPT !.pc = "close"]

\* lines 151-166: runner.Create; on success the closure and statsCtx
Create(w) ==
    /\ workers[w].pc = "create"
    /\ \/ /\ workers' = [workers EXCEPT ![w] =
                            [@ EXCEPT !.pc = "loop", !.token = "live"]]
          /\ UNCHANGED nfail
          /\ UNCHANGED aborted
       \/ /\ nfail < MaxFail
          /\ nfail' = nfail + 1
          /\ workers' = [workers EXCEPT ![w] = OnCreateError(@)]
          /\ aborted' = Put(aborted, w, workers[w].i)
    /\ users' = Use(users, workers[w].runner, w)
    /\ UNCHANGED <<state, stats, driver, cpc, run, threads, iterations,
                   commands, idx, wg, statChan, lastCall, lastErr, iter,
                   newFailed, cb_elapsed>>

\* lines 168-215: the loop over commands, the driver failing at the
\* positions in fails
Loop(w) ==
    /\ workers[w].pc = "loop"
    /\ \E fails \in DOMAIN workers[w].loop :
          /\ nfail + Cardinality(fails) <= MaxFail
          /\ nfail' = nfail + Cardinality(fails)
          /\ workers' = [workers EXCEPT ![w] =
                            [@ EXCEPT !.pc = "cancel",
                                      !.it = workers[w].loop[fails]]]
          /\ users' = IF workers[w].loop[fails].calls = <<>> THEN users
                      ELSE Use(users, workers[w].runner, w)
    /\ UNCHANGED <<state, stats, driver, cpc, run, threads, iterations,
                   commands, idx, wg, statChan, lastCall, lastErr, aborted, iter,
                   newFailed, cb_elapsed>>

\* the token cancelled only when the iteration opened a Stats reader
StatsCancelIfStreaming(wk) ==
    IF wk.it.readers > 0
    THEN [wk EXCEPT !.pc = "send", !.token = "cancelled", !.cancels = @ + 1]
    ELSE [wk EXCEPT !.pc = "send"]

\* line 217: statsCancel()
StatsCancel(wk) ==
    [wk EXCEPT !.pc = "send", !.token = "cancelled", !.cancels = @ + 1]

Cancel(w) ==
    /\ workers[w].pc = "cancel"
    /\ workers' = [workers EXCEPT ![w] = StatsCancel(@)]
    /\ UNCHANGED <<state, stats, driver, cpc, run, threads, iterations,
                   commands, idx, wg, statChan, nfail, lastCall, lastErr, aborted, iter,
                   users, newFailed, cb_elapsed>>

\* a send on a buffered channel puts the value behind those already there
Enqueue(buf, rec) == Append(buf, rec)

\* lines 219-223 and the loop's i++: the send blocks while the buffer is full
Send(w) ==
    /\ workers[w].pc = "send"
    /\ Len(statChan[w].buf) < statChan[w].cap
    /\ statChan' = [statChan EXCEPT ![w].buf =
                       Enqueue(@, RunStatistics(workers[w].it, w[1], w[2], workers[w].i))]
    /\ workers' = [workers EXCEPT ![w] =
                      [@ EXCEPT !.i = @ + 1,
                                !.it = NewIteration,
                                !.pc = IF workers[w].i + 1 < workers[w].n
                                       THEN "create" ELSE "close"]]
    /\ UNCHANGED <<state, stats, driver, cpc, run, threads, iterations,
                   commands, idx, wg, nfail, lastCall, lastErr, aborted, iter,
                   users, newFailed, cb_elapsed>>

\* the deferred function returning when Close fails, close(stats) not reached
AfterCloseReturnOnError(wk, failed) ==
    [wk EXCEPT !.closes = @ + 1, !.closeErr = failed,
               !.pc = IF failed THEN "wgdone" ELSE "closechan"]

\* lines 139-141: the error of runner.Close() is logged and nothing else
AfterClose(wk, failed) ==
    [wk EXCEPT !.closes = @ + 1, !.closeErr = failed, !.pc = "closechan"]

\* lines 138-141: the deferred function calls runner.Close()
CloseDriver(w) ==
    /\ workers[w].pc = "close"
    /\ \E failed \in BOOLEAN :
          /\ failed => nfail < MaxFail
          /\ nfail' = IF failed THEN nfail + 1 ELSE nfail
          /\ workers' = [workers EXCEPT ![w] = AfterClose(@, failed)]
    /\ users' = Use(users, workers[w].runner, w)
    /\ UNCHANGED <<state, stats, driver, cpc, run, threads, iterations,
                   commands, idx, wg, statChan, lastCall, lastErr, aborted, iter,
                   newFailed, cb_elapsed>>

\* line 142: close(stats)
CloseChan(w) ==
    /\ workers[w].pc = "closechan"
    /\ workers' = [workers EXCEPT ![w] =
                      [@ EXCEPT !.pc = "wgdone", !.chanCloses = @ + 1]]
    /\ statChan' = [statChan EXCEPT ![w].closed = TRUE]
    /\ UNCHANGED <<state, stats, driver, cpc, run, threads, iterations,
                   commands, idx, wg, nfail, lastCall, lastErr, aborted, iter,
                   users, newFailed, cb_elapsed>>

\* line 115: the deferred wg.Done(); the goroutine ends
WgDone(w) ==
    /\ workers[w].pc = "wgdone"
    /\ wg' = [wg EXCEPT ![w[1]] = @ - 1]
    /\ workers' = Without(workers, w)
    /\ statChan' = Collect(statChan, Without(workers, w), run, cpc)
    /\ UNCHANGED <<state, stats, driver, cpc, run, threads, iterations,
                   commands, idx, nfail, lastCall, lastErr, aborted, iter,
                   users, newFailed, cb_elapsed>>

-----------------------------------------------------------------------------
(* The benchmark: one caller, and the goroutines its Run calls start *)

NoIter == [cmds |-> <<>>, fails |-> {}, k |-> 0, it |-> NewIteration,
           rec |-> <<>>, token |-> "none", open |-> {}]

Init ==
    /\ state = Created
    /\ stats = <<>>
    /\ driver = "nil"
    /\ cpc = "idle"
    /\ run = 0
    /\ threads = 0
    /\ iterations = 0
    /\ commands = <<>>
    /\ idx = 0
    /\ wg = EmptyMap
    /\ workers = EmptyMap
    /\ statChan = EmptyMap
    /\ nfail = 0
    /\ lastCall = "none"
    /\ lastErr = "nil"
    /\ aborted = EmptyMap
    /\ iter = NoIter
    /\ users = EmptyMap
    /\ newFailed = {}
    /\ cb_elapsed = 0

Next ==
    \/ CbInit
    \/ Validate
    \/ RunStart
    \/ Spawn
    \/ SpawnFail
    \/ Wait
    \/ Recv
    \/ Complete
    \/ Clean
    \/ \E w \in DOMAIN workers : Create(w)
    \/ \E w \in DOMAIN workers : Loop(w)
    \/ \E w \in DOMAIN workers : Cancel(w)
    \/ \E w \in DOMAIN workers : Send(w)
    \/ \E w \in DOMAIN workers : CloseDriver(w)
    \/ \E w \in DOMAIN workers : CloseChan(w)
    \/ \E w \in DOMAIN workers : WgDone(w)

Spec == Init /\ [][Next]_vars

-----------------------------------------------------------------------------
(* The benchmark under a fair scheduler: the goroutine that executes Run and *)
(* every runThread goroutine take their next step when they can.  The calls  *)
(* of the caller (Init, Validate, the start of a Run) are under no fairness. *)

\* a step of the goroutine inside Run
RunStep == Spawn \/ SpawnFail \/ Wait \/ Recv \/ Complete \/ Clean

\* a step of the runThread goroutine w
WorkerStep(w) ==
    Create(w) \/ Loop(w) \/ Cancel(w) \/ Send(w) \/ CloseDriver(w)
        \/ CloseChan(w) \/ WgDone(w)

WorkerIds == (1..MaxRuns) \X (0..(MaxThreads - 1))

SpecLive ==
    /\ Spec
    /\ WF_vars(RunStep)
    /\ \A w \in WorkerIds : WF_vars(w \in DOMAIN workers /\ WorkerStep(w))

-----------------------------------------------------------------------------
(* One iteration of runThread on its own: the loop over commands taken one  *)
(* command at a time, for every command sequence over CommandPool and every *)
(* set of positions at which the driver fails.                              *)

c_START == <<"S","T","A","R","T">>
c_Kill == <<"K","i","l","l">>
c_DELETE == <<"D","E","L","E","T","E">>
c_PAUSE == <<"P","A","U","S","E">>
c_Resume == <<"R","e","s","u","m","e">>
c_Wait == <<"W","a","i","t">>
c_STATS == <<"S","T","A","T","S">>
c_boguscmd == <<"b","o","g","u","s","c","m","d">>
c_execsync_ls == <<"e","x","e","c","s","y","n","c"," ","l","s"," ","-","l","a"," ","/">>
c_ExecSync_ls == <<"E","x","e","c","S","y","n","c"," ","l","s">>

CommandPool ==
    { s_run, s_start, s_stop, s_kill, s_remove, s_erase, s_delete, s_pause,
      s_unpause, s_resume, s_wait, s_metrics, s_stats, s_execsync,
      c_START, c_Kill, c_DELETE, c_PAUSE, c_Resume, c_Wait, c_STATS,
      c_boguscmd, c_execsync_ls, c_ExecSync_ls }

\* the sequences of section 8 of the specification that are longer than MaxCmds
ScenarioSeqs ==
    { <<c_START, c_Kill, c_DELETE>>,
      <<s_run, s_stats, s_stop, s_remove>>,
      <<c_boguscmd, s_run, s_stop, s_remove>>,
      <<s_run, s_run, s_stats, s_stats>> }

IterCommandSeqs ==
    ScenarioSeqs \cup UNION {[1..n -> CommandPool] : n \in 0..MaxCmds}

InitIter ==
    /\ state = Created
    /\ stats = <<>>
    /\ driver = "nil"
    /\ cpc = "idle"
    /\ run = 0
    /\ threads = 0
    /\ iterations = 0
    /\ commands = <<>>
    /\ idx = 0
    /\ wg = EmptyMap
    /\ workers = EmptyMap
    /\ statChan = EmptyMap
    /\ nfail = 0
    /\ lastCall = "none"
    /\ lastErr = "nil"
    /\ aborted = EmptyMap
    /\ users = EmptyMap
    /\ newFailed = {}
    /\ cb_elapsed = 0
    /\ \E c \in IterCommandSeqs : \E f \in SUBSET DriverPositions(c) :
          iter = [cmds |-> c, fails |-> f, k |-> 1, it |-> NewIteration,
                  rec |-> <<>>, token |-> "live", open |-> {}]

\* one pass of the loop body (lines 168-215); a Stats call that succeeds
\* leaves its reader open, with the goroutine of lines 202-207 to consume it
IterStep ==
    /\ iter.k \in 1..Len(iter.cmds)
    /\ LET new == ExecCmd(iter.it, iter.cmds[iter.k], iter.k \in iter.fails,
                          Elapsed(iter.k))
       IN iter' = [iter EXCEPT
                     !.it = new,
                     !.k = @ + 1,
                     !.open = IF new.readers > iter.it.readers
                              THEN @ \cup {iter.k} ELSE @]
    /\ UNCHANGED <<state, stats, driver, cpc, run, threads, iterations,
                   commands, idx, wg, workers, statChan, nfail, lastCall, lastErr, aborted,
                   users, newFailed, cb_elapsed>>

\* line 217: statsCancel()
IterCancel ==
    /\ iter.k = Len(iter.cmds) + 1
    /\ iter.token = "live"
    /\ iter' = [iter EXCEPT !.token = "cancelled"]
    /\ UNCHANGED <<state, stats, driver, cpc, run, threads, iterations,
                   commands, idx, wg, workers, statChan, nfail, lastCall, lastErr, aborted,
                   users, newFailed, cb_elapsed>>

\* lines 219-223: the record of the iteration is sent, and the iteration ends
IterEmit ==
    /\ iter.k = Len(iter.cmds) + 1
    /\ iter.token = "cancelled"
    /\ iter.rec = <<>>
    /\ iter' = [iter EXCEPT !.rec = <<RunStatistics(iter.it, 0, 0, 0)>>]
    /\ UNCHANGED <<state, stats, driver, cpc, run, threads, iterations,
                   commands, idx, wg, workers, statChan, nfail, lastCall, lastErr, aborted,
                   users, newFailed, cb_elapsed>>

\* lines 202-207, the goroutine that consumes the reader opened at position
\* p: io.Copy returns once the stream has ended, which it does when statsCtx
\* is cancelled, and the reader is closed
IterConsume ==
    /\ iter.token = "cancelled"
    /\ \E p \in iter.open : iter' = [iter EXCEPT !.open = @ \ {p}]
    /\ UNCHANGED <<state, stats, driver, cpc, run, threads, iterations,
                   commands, idx, wg, workers, statChan, nfail, lastCall, lastErr, aborted,
                   users, newFailed, cb_elapsed>>

NextIter == IterStep \/ IterCancel \/ IterEmit \/ IterConsume

SpecIter == InitIter /\ [][NextIter]_vars

-----------------------------------------------------------------------------
(* Properties *)

\* Run has reached line 129 in its latest call
LatestRunAggregated ==
    /\ lastCall = "Run"
    /\ cpc \in {"clean", "idle"}
    /\ lastErr # "new"

\* the places in stats of the records of worker <<r, t>>
RecordsOf(r, t) == {j \in 1..Len(stats) : stats[j].run = r /\ stats[j].thread = t}

\* C1: with a driver that never fails, once a Run called with threads >= 1
\* and iterations >= 1 has returned, Stats() holds exactly threads x
\* iterations records.
C1_StatsLengthAfterEachRun ==
    (cpc = "idle" /\ lastCall = "Run" /\ nfail = 0 /\ threads >= 1 /\ iterations >= 1)
        => Len(Stats) = threads * iterations

\* C1, the first Run only: what the code does keep
C1_FirstRunLength ==
    (cpc = "idle" /\ lastCall = "Run" /\ nfail = 0 /\ run = 1)
        => Len(Stats) = threads * iterations

\* C2: Stats() is cb.stats exactly when the state is Completed and is empty
\* otherwise; while Run is spawning, waiting or draining, or a worker of the
\* latest Run is alive, Stats() is empty, so no part of a result is seen.
C2_StatsOnlyWhenCompleted ==
    /\ state = Completed => Stats = stats
    /\ state # Completed => Stats = <<>>
    /\ (cpc \in {"spawn", "wait", "drain"} \/ Alive(run) # {}) => Stats = <<>>

\* C2 witness: the drain has put records in cb.stats and Stats() hides them
C2_Witness ==
    /\ cpc = "drain"
    /\ stats # <<>>
    /\ Stats = <<>>

\* C3: State() is Created before the first Run, Running while Run spawns,
\* waits and drains, and Completed once Run has returned.
C3_StateFollowsRun ==
    /\ run = 0 => State = Created
    /\ cpc \in {"spawn", "wait", "drain"} => State = Running
    /\ (cpc = "idle" /\ run > 0) => State = Completed

Rank(s) == CASE s = Created -> 0 [] s = Running -> 1 [] s = Completed -> 2

\* C4: no step takes cb.state from a later state of Created -> Running ->
\* Completed back to an earlier one.
C4_StateMonotonic == [][Rank(state') >= Rank(state)]_vars

\* the verbs section 6 of the specification accepts, and the keys it allows
AcceptedVerbs ==
    { s_run, s_start, s_stop, s_kill, s_remove, s_erase, s_delete, s_pause,
      s_unpause, s_resume, s_wait, s_metrics, s_stats, s_execsync }

CanonicalKeys ==
    { s_run, s_stop, s_remove, s_pause, s_resume, s_wait, s_metrics, s_execsync }

AllAccepted(cmds) ==
    \A p \in 1..Len(cmds) : ToLower(CmdVerb(cmds[p])) \in AcceptedVerbs

\* C5: for a sequence of accepted verbs in any letter case, every key of
\* Durations and of Errors of the emitted record is a canonical lowercase key.
C5_CanonicalKeys ==
    (iter.rec # <<>> /\ AllAccepted(iter.cmds)) =>
        ((DOMAIN iter.rec[1].Durations) \cup (DOMAIN iter.rec[1].Errors))
            \subseteq CanonicalKeys

\* C5, the verbs whose case passes a string literal to log_error: what the
\* code does keep
C5_LiteralKeys ==
    iter.rec # <<>> =>
        \A key \in (DOMAIN iter.rec[1].Durations) \cup (DOMAIN iter.rec[1].Errors) :
            \/ key \in {s_run, s_stop, s_remove, s_resume, s_metrics}
            \/ \E p \in 1..Len(iter.cmds) :
                  /\ key = CmdVerb(iter.cmds[p])
                  /\ ToLower(key) \in {s_pause, s_wait, s_execsync}

\* the positions of cmds recorded under key
PositionsOf(cmds, key) ==
    {p \in DriverPositions(cmds) : Dispatch(cmds[p]).key = key}

LastOf(S) == CHOOSE p \in S : \A q \in S : q <= p

\* C6: in the emitted record, for each command c of the sequence that the
\* driver failed k times, Errors[key(c)] = k when k > 0 and Errors has no
\* entry when k = 0, Durations[key(c)] is the elapsed value of the last
\* attempt, and every recognized command of the sequence was attempted.
C6_FailuresAreData ==
    iter.rec # <<>> =>
        /\ Len(iter.it.calls) = Cardinality(DriverPositions(iter.cmds))
        /\ \A p \in DriverPositions(iter.cmds) :
              LET key == Dispatch(iter.cmds[p]).key
                  at == PositionsOf(iter.cmds, key)
                  k == Cardinality(at \cap iter.fails)
                  r == iter.rec[1]
              IN /\ key \in DOMAIN r.Durations
                 /\ r.Durations[key] = Elapsed(LastOf(at))
                 /\ k > 0 => (key \in DOMAIN r.Errors /\ r.Errors[key] = k)
                 /\ k = 0 => key \notin DOMAIN r.Errors

\* C6, every operation but Stats: what the code does keep
C6_TimedCommands ==
    iter.rec # <<>> =>
        /\ Len(iter.it.calls) = Cardinality(DriverPositions(iter.cmds))
        /\ \A p \in DriverPositions(iter.cmds) :
              LET d == Dispatch(iter.cmds[p])
                  at == PositionsOf(iter.cmds, d.key)
                  k == Cardinality(at \cap iter.fails)
                  r == iter.rec[1]
              IN /\ d.op # "Stats" =>
                        (d.key \in DOMAIN r.Durations /\ r.Durations[d.key] = Elapsed(LastOf(at)))
                 /\ k > 0 => (d.key \in DOMAIN r.Errors /\ r.Errors[d.key] = k)
                 /\ k = 0 => d.key \notin DOMAIN r.Errors

\* C7: when the sequence holds the verb stats or metrics, the emitted record
\* has the key metrics in Durations.
C7_MetricsDuration ==
    (/\ iter.rec # <<>>
     /\ \E p \in 1..Len(iter.cmds) :
           ToLower(CmdVerb(iter.cmds[p])) \in {s_stats, s_metrics})
        => s_metrics \in DOMAIN iter.rec[1].Durations

\* C8: once Run has aggregated, the state is Completed and stats holds, of a
\* worker whose Create failed at iteration i, the records of iterations
\* 0..i-1 and no other, and of every other worker the records of all its
\* iterations; the join counts exactly the workers alive and the drain finds
\* every channel closed.
C8_CreateFailureAbortsWorkerOnly ==
    /\ LatestRunAggregated =>
          /\ state = Completed
          /\ \A t \in 0..(threads - 1) :
                LET w == <<run, t>>
                    want == IF w \in DOMAIN aborted THEN aborted[w] ELSE iterations
                IN /\ Cardinality(RecordsOf(run, t)) = want
                   /\ {stats[j].iter : j \in RecordsOf(run, t)} = 0..(want - 1)
    /\ cpc \in {"spawn", "wait"} => wg[run] = Cardinality(Alive(run))
    /\ cpc = "drain" => \A t \in idx..(threads - 1) : statChan[<<run, t>>].closed

\* C8 witness: of two workers with two iterations each, one failed Create at
\* its second iteration, and Run has returned with three records
C8_Witness ==
    /\ cpc = "idle"
    /\ lastCall = "Run"
    /\ state = Completed
    /\ threads = 2
    /\ iterations = 2
    /\ \E t \in 0..1 : <<run, t>> \in DOMAIN aborted /\ aborted[<<run, t>>] = 1
    /\ Cardinality({j \in 1..Len(stats) : stats[j].run = run}) = 3

RecBefore(a, b) ==
    \/ a.thread < b.thread
    \/ (a.thread = b.thread /\ a.iter < b.iter)

\* C9: any two records of stats that come from the same Run stand in
\* (thread, iteration) order.
C9_AggregationOrder ==
    \A j, k \in 1..Len(stats) :
        (j < k /\ stats[j].run = stats[k].run) => RecBefore(stats[j], stats[k])

\* C9 witness: a Run of two workers and two iterations has aggregated its
\* four records
C9_Witness ==
    /\ LatestRunAggregated
    /\ threads = 2
    /\ iterations = 2
    /\ Cardinality({j \in 1..Len(stats) : stats[j].run = run}) = 4

\* C10: the token of an iteration is live only while the worker is in the
\* command loop or about to cancel; it is cancelled when the record is sent,
\* when the next Create is called and when the worker exits, and a worker has
\* cancelled at least as many tokens as it has sent records.
C10_TokenCancelledBeforeSend ==
    \A w \in DOMAIN workers :
        LET wk == workers[w]
        IN /\ wk.token = "live" => wk.pc \in {"loop", "cancel"}
           /\ wk.pc = "send" => (wk.token = "cancelled" /\ wk.cancels = wk.i + 1)
           /\ wk.pc # "send" => wk.cancels = wk.i
           /\ (wk.pc = "create" /\ wk.i > 0) => wk.token = "cancelled"

\* C10 witness: a worker whose sequence calls no Stats, with a failed
\* command, stands at the send with its token cancelled
C10_Witness ==
    \E w \in DOMAIN workers :
        /\ workers[w].pc = "send"
        /\ workers[w].token = "cancelled"
        /\ workers[w].it.readers = 0
        /\ workers[w].it.errors # EmptyMap

\* the positions of cmds whose verb section 6 of the specification accepts
Recognized(cmds) ==
    {p \in 1..Len(cmds) : ToLower(CmdVerb(cmds[p])) \in AcceptedVerbs}

\* C11: a command whose verb is not recognized is skipped: no driver
\* operation is invoked for it and neither Durations nor Errors gets an entry
\* for it, the commands after it still run (one driver call for each
\* recognized command passed so far), and the record of the iteration is
\* emitted after the last command and holds what the loop recorded.
C11_UnknownVerbSkipped ==
    LET done == 1..(iter.k - 1)
        keys == (DOMAIN iter.it.durations) \cup (DOMAIN iter.it.errors)
    IN /\ Len(iter.it.calls) = Cardinality(done \cap Recognized(iter.cmds))
       /\ \A p \in done \ Recognized(iter.cmds) : CmdVerb(iter.cmds[p]) \notin keys
       /\ iter.rec # <<>> =>
             /\ iter.k = Len(iter.cmds) + 1
             /\ iter.rec[1].Durations = iter.it.durations
             /\ iter.rec[1].Errors = iter.it.errors

\* C11 witness: the record of [boguscmd, run, stop, remove] is emitted with
\* the keys run, stop and remove after three driver calls
C11_Witness ==
    /\ iter.cmds = <<c_boguscmd, s_run, s_stop, s_remove>>
    /\ iter.rec # <<>>
    /\ DOMAIN iter.rec[1].Durations = {s_run, s_stop, s_remove}
    /\ [j \in 1..Len(iter.it.calls) |-> iter.it.calls[j].op] = <<"Run", "Stop", "Remove">>

\* the canonical key of a recognized command: the key its case records for
\* the verb in lowercase
CanonicalKey(raw) == Dispatch(ToLower(raw)).key

\* C12: in every record, the number of entries of Durations is the number of
\* recognized verbs of the command sequence, a verb named twice or under two
\* aliases being counted once, as the one key it is recorded under.
C12_DurationsCount ==
    iter.rec # <<>> =>
        Cardinality(DOMAIN iter.rec[1].Durations)
            = Cardinality({CanonicalKey(iter.cmds[p]) : p \in Recognized(iter.cmds)})

\* C12, the keys the code does record: one entry for each key passed to
\* log_error
C12_TimedKeys ==
    iter.rec # <<>> =>
        DOMAIN iter.rec[1].Durations
            = {Dispatch(iter.cmds[p]).key :
                  p \in {q \in DriverPositions(iter.cmds) : Dispatch(iter.cmds[q]).op # "Stats"}}

\* C13: the workers alive hold driver instances different from one another
\* and from cb.driver; an instance made for a worker has been invoked by that
\* worker only and cb.driver by the caller only, so no instance has been
\* invoked by two goroutines; and when Run is about to call cb.driver.Clean,
\* no worker of that Run is alive.
C13_DriverIsolation ==
    /\ \A w \in DOMAIN workers :
          /\ workers[w].runner # CoordDriver
          /\ \A v \in DOMAIN workers : v # w => workers[v].runner # workers[w].runner
    /\ \A d \in DOMAIN users :
          /\ Cardinality(users[d]) <= 1
          /\ d = CoordDriver => users[d] = {Caller}
          /\ \A g \in users[d] :
                (g \in DOMAIN workers /\ d # CoordDriver) => workers[g].runner = d
    /\ \A w \in DOMAIN workers :
          \A d \in DOMAIN users : (d # CoordDriver /\ w \in users[d]) => d = workers[w].runner
    /\ cpc = "clean" => Alive(run) = {}

\* C13 witness: two workers of one Run are in their command loops, each
\* having invoked its own driver, after the caller invoked cb.driver
C13_Witness ==
    /\ Cardinality(Alive(run)) = 2
    /\ \A w \in Alive(run) :
          /\ workers[w].pc = "cancel"
          /\ workers[w].runner \in DOMAIN users
          /\ users[workers[w].runner] = {w}
    /\ CoordDriver \in DOMAIN users

\* C14: when driver.New failed in a Run, that Run has returned the error to
\* the caller; the workers it had started are never blocked at their send, so
\* each runs to its end; and no record of that Run is in cb.stats, nor in
\* what Stats() returns.
C14_NewFailureDiscardsRun ==
    /\ (run \in newFailed /\ lastCall = "Run") => (cpc = "idle" /\ lastErr = "new")
    /\ \A w \in DOMAIN workers :
          (w[1] \in newFailed /\ workers[w].pc = "send") =>
              (w \in DOMAIN statChan /\ Len(statChan[w].buf) < statChan[w].cap)
    /\ \A j \in 1..Len(stats) : stats[j].run \notin newFailed
    /\ \A j \in 1..Len(Stats) : Stats[j].run \notin newFailed

\* C14 witness: after a Run that aggregated, driver.New failed for thread 1
\* of the next Run; its worker 0 has sent two records and ended, Run has
\* returned the error, and cb.stats holds records of the first Run only
C14_Witness ==
    /\ run = 2
    /\ newFailed = {2}
    /\ cpc = "idle"
    /\ lastErr = "new"
    /\ iterations = 2
    /\ NewDriver(2, 0) \in DOMAIN users
    /\ NewDriver(2, 1) \notin DOMAIN users
    /\ Alive(2) = {}
    /\ stats # <<>>

\* C15: when Run has returned the error of the final cb.driver.Clean, the
\* state is Completed, Stats() returns cb.stats, and cb.stats holds every
\* record the workers of that Run sent: all iterations of each worker, in
\* order of iteration.
C15_CleanFailureKeepsResults ==
    (cpc = "idle" /\ lastCall = "Run" /\ lastErr = "clean") =>
        /\ state = Completed
        /\ Stats = stats
        /\ \A t \in 0..(threads - 1) :
              LET mine == {j \in 1..Len(Stats) : Stats[j].run = run /\ Stats[j].thread = t}
                  want == IF <<run, t>> \in DOMAIN aborted THEN aborted[<<run, t>>]
                          ELSE iterations
              IN /\ Cardinality(mine) = want
                 /\ {Stats[j].iter : j \in mine} = 0..(want - 1)

\* C15 witness: Run has returned the error of Clean and Stats() returns the
\* four records of two workers
C15_Witness ==
    /\ cpc = "idle"
    /\ lastCall = "Run"
    /\ lastErr = "clean"
    /\ threads = 2
    /\ iterations = 2
    /\ Cardinality({j \in 1..Len(Stats) : Stats[j].run = run}) = 4

\* C16: while Run executes, up to the return of the final cb.driver.Clean,
\* the state is not Completed: it becomes Completed only once the workers
\* have joined and the final cleanup is over.
C16_CompletedAfterCleanup ==
    cpc \in {"spawn", "wait", "drain", "clean"} => state # Completed

\* C16, the join and the drain only: what the code does keep.  Inside Run
\* the state is Completed only with every worker of the Run ended and every
\* channel drained, the final Clean yet to be called.
C16_CompletedAfterJoin ==
    (cpc # "idle" /\ state = Completed) =>
        /\ cpc = "clean"
        /\ Alive(run) = {}
        /\ \A t \in 0..(threads - 1) :
              statChan[<<run, t>>].closed /\ statChan[<<run, t>>].buf = <<>>

\* C17: a worker that has not reached its deferred function has closed
\* neither its driver nor its channel; from there it closes the driver once,
\* then the channel once, whether or not Close returned an error, and ends.
\* The driver is invoked and records are sent only before the close, and a
\* closed channel gets no record and stays closed.
C17_CloseDriverThenChannel ==
    /\ [](\A w \in DOMAIN workers :
            LET wk == workers[w]
            IN /\ wk.pc \in {"create", "loop", "cancel", "send", "close"} =>
                     (wk.closes = 0 /\ wk.chanCloses = 0 /\ ~statChan[w].closed)
               /\ wk.pc = "closechan" =>
                     (wk.closes = 1 /\ wk.chanCloses = 0 /\ ~statChan[w].closed)
               /\ wk.pc = "wgdone" =>
                     (wk.closes = 1 /\ wk.chanCloses = 1 /\ statChan[w].closed)
               /\ wk.pc \in {"create", "loop", "cancel", "send", "close",
                             "closechan", "wgdone"})
    /\ [][\A w \in (DOMAIN statChan) \cap (DOMAIN statChan') :
            statChan[w].closed =>
                /\ statChan'[w].closed
                /\ Len(statChan'[w].buf) <= Len(statChan[w].buf)]_vars
    /\ [][\A w \in (DOMAIN workers) \cap (DOMAIN workers') :
            workers[w].closes > 0 =>
                /\ workers'[w].pc \in {"closechan", "wgdone"}
                /\ workers'[w].closes = workers[w].closes]_vars

\* C17 witness: a worker whose runner.Close returned an error has closed its
\* channel, with the records of both its iterations in it
C17_Witness ==
    \E w \in DOMAIN workers :
        /\ workers[w].pc = "wgdone"
        /\ workers[w].closeErr
        /\ workers[w].closes = 1
        /\ statChan[w].closed
        /\ Len(statChan[w].buf) = 2

\* C18: a Run that has started returns.  No worker at its send finds its
\* channel full, a worker having sent fewer than iterations records into a
\* channel of capacity iterations; the counter of the join is the number of
\* workers of the Run still alive; and the drain finds every channel closed.
C18_RunTerminates ==
    /\ [](\A w \in DOMAIN workers :
            /\ workers[w].i <= workers[w].n
            /\ statChan[w].cap = workers[w].n
            /\ Len(statChan[w].buf) <= workers[w].i
            /\ workers[w].pc = "send" => Len(statChan[w].buf) < statChan[w].cap)
    /\ [](cpc \in {"spawn", "wait"} => wg[run] = Cardinality(Alive(run)))
    /\ [](cpc = "drain" => \A t \in 0..(threads - 1) : statChan[<<run, t>>].closed)
    /\ (cpc # "idle") ~> (cpc = "idle")

\* C18 witness: a Run of two workers and two iterations has returned nil
C18_Witness ==
    /\ cpc = "idle"
    /\ lastCall = "Run"
    /\ lastErr = "nil"
    /\ threads = 2
    /\ iterations = 2
    /\ Len(Stats) >= 4

\* the steps that assign cb.state (lines 101 and 129), cb.elapsed (line 120)
\* and cb.stats (line 126)
WritesState == run' # run \/ (cpc = "drain" /\ cpc' = "clean")
WritesElapsed == cpc = "wait" /\ cpc' = "drain"
WritesStats == stats' # stats

\* a step of a runThread goroutine: a worker moves, Run does not
WorkerMoves == workers' # workers /\ cpc' = cpc /\ idx' = idx

\* C19: over any sequence of calls, a step that assigns cb.stats, cb.elapsed
\* or cb.state is taken while no runThread goroutine is alive, and a step of
\* a runThread goroutine leaves the three unchanged.
C19_WritesOutsideWorkerLifetimes ==
    /\ [][(WritesState \/ WritesElapsed \/ WritesStats) => DOMAIN workers = {}]_vars
    /\ [][WorkerMoves => UNCHANGED <<state, stats, cb_elapsed>>]_vars

\* C19, the workers of the Run that writes: what the code does keep.  The
\* three are assigned while no worker of the Run that assigns them is alive,
\* and never by a worker.
C19_WritesOutsideOwnWorkers ==
    /\ [][(WritesState \/ WritesElapsed \/ WritesStats) => Alive(run') = {}]_vars
    /\ [][WorkerMoves => UNCHANGED <<state, stats, cb_elapsed>>]_vars

\* C20: when the record of an iteration has been sent, the iteration being
\* over, every Stats reader opened in it has been drained and closed by its
\* consumer.
C20_ReadersClosedAtIterationEnd ==
    iter.rec # <<>> => iter.open = {}

\* C20, the cancellation only: what the code does keep.  When the record is
\* sent the token of the iteration is cancelled, and a reader is open at the
\* positions of the Stats calls that succeeded and at no other, so no reader
\* is closed before the token is cancelled.
C20_CancelledAtIterationEnd ==
    /\ iter.rec # <<>> => iter.token = "cancelled"
    /\ iter.open \subseteq
          {p \in 1..(iter.k - 1) : Dispatch(iter.cmds[p]).op = "Stats" /\ p \notin iter.fails}
    /\ iter.token = "live" =>
          Cardinality(iter.open) = iter.it.readers

\* one iteration with goroutines that consume their readers when they can
SpecIterLive == SpecIter /\ WF_vars(IterConsume)

\* C20, the last part: once the token is cancelled, every reader that was
\* opened is closed in the end
C20_ReadersEventuallyClosed ==
    (iter.token = "cancelled") ~> (iter.open = {})

====
